---- MODULE Spec2Model ----
(***************************************************************************)
(* Model of the aaao-go-backend controllers.                               *)
(*                                                                         *)
(* src/unnamed/part_000 holds three source files one after the other:      *)
(*   lines   1- 26  models/vehicleModel.js                                 *)
(*   lines  28-266  controllers/driversController.js                       *)
(*   lines 268-744  controllers/userController.js (TempUser version)       *)
(* Each is an ES module of its own (each has its own import block and its  *)
(* own export statement).                                                  *)
(*                                                                         *)
(* The persistent store is the state: the User collection, the TempUser    *)
(* collection (verification sessions), the Vehicle collection and the      *)
(* clock.  `last` records the most recent request, the response it got and *)
(* whether the transporter was handed a mail.                              *)
(***************************************************************************)
EXTENDS Integers, Sequences, FiniteSets, TLC

VARIABLES
    users,      \* User collection: sequence of documents, _id = index
    vehicles,   \* Vehicle collection: sequence of documents
    sessions,   \* TempUser collection: set of documents
    now,        \* Date.now(), in units of five minutes
    nextTempId, \* number of uuidv4() values drawn so far
    inflight,   \* verifyOTPUser calls in progress, one record per request
    last        \* the last request handled and its response

vars == <<users, vehicles, sessions, now, nextTempId, inflight, last>>

----------------------------------------------------------------------------
(* Bounds of the model *)

MaxKycUsers == 2
MaxVehicles == 1
MaxUsers == 2
MaxTime == 3
MaxTempIds == 2
MaxNetwork == 6
MaxMore == 2
MaxRequests == 2
MaxResetUsers == 1
MaxWalkUsers == 3
MaxVisits == 2
MaxRoleUsers == 1

----------------------------------------------------------------------------
(* Values *)

None == "none"

\* referral codes; sponsorId of the i-th user is Codes[i]
Codes == <<"S1", "S2", "S3", "S4", "S5", "S6", "S7", "S8", "S9", "S10",
           "S11", "S12", "S13", "S14", "S15", "S16">>
Root == "root"
UnknownCode == "S0"

Emails == <<"e1", "e2", "e3", "e4", "e5", "e6", "e7", "e8", "e9", "e10",
            "e11", "e12", "e13", "e14", "e15", "e16">>
Phones == <<"p1", "p2", "p3", "p4", "p5", "p6", "p7", "p8", "p9", "p10",
            "p11", "p12", "p13", "p14", "p15", "p16">>

\* uploaded files; cloudinary's secure_url of file f is written f
Files == {"f1"}

UserIds == 1..MaxKycUsers

\* resetOtpExpires of a user without a reset OTP (null)
NoExpiry == 0

\* User.create(...) with the schema defaults of models/userModel.js
NewUser(id, email, phoneNumber, sponsorBy) ==
    [ email       |-> email,
      phoneNumber |-> phoneNumber,
      isVerified  |-> TRUE,
      kycLevel    |-> 0,
      role        |-> "customer",
      licenseImage |-> None,
      cnicImages  |-> None,
      level       |-> 0,
      sponsorId   |-> Codes[id],
      sponsorBy   |-> sponsorBy,
      sponsorTree |-> <<>>,
      password    |-> "pw0",
      resetOtp    |-> None,
      resetOtpExpires |-> NoExpiry,
      otp         |-> None ]

\* User.findById(userId) finds a document
Exists(userId) == userId \in DOMAIN users

\* the document User.findById(userId) returns, when it finds one
findById(userId) == users[userId]

----------------------------------------------------------------------------
(* controllers/driversController.js *)

\* The drivers controller imports Vehicle, User and cloudinary only
\* (part_000 lines 29-31): the identifier jwt is unbound in that module, so
\* evaluating jwt.sign(...) raises a ReferenceError.
DriversJwtSign == "ReferenceError"

\* upload.single("licenseImage") of the router: multer puts the file in
\* req.file and leaves req.files undefined.
MulterSingle(f) == [file |-> f, files |-> None]

\* a request whose req.files.licenseImage is set (f may be None)
FilesRequest(f) == [file |-> None, files |-> f]

\* req.files?.licenseImage ? req.files.licenseImage[0] : null
LicenseImageOf(req) == req.files

\* status of the response once the handler reached jwt.sign inside try/catch
AfterSignInTry(okStatus) ==
    IF DriversJwtSign = "ok" THEN okStatus ELSE 500

\* status once the handler reached jwt.sign outside any try/catch: the
\* rejection is unhandled and no response is sent (0)
AfterSignNoTry(okStatus) ==
    IF DriversJwtSign = "ok" THEN okStatus ELSE 0

\* mutant: the gate of uploadLicense left out
LicenseGateOpen_NoGate(user) == TRUE

\* the kycLevel gate of uploadLicense
LicenseGateOpen(user) == ~(user.kycLevel < 1)

\* mutant: the vehicle gate tests level 1 instead of level 2
VehicleGateOpen_Level1(userId) ==
    /\ Exists(userId)
    /\ ~(users[userId].kycLevel < 1)

\* the kycLevel gate of handleVehicleDecision and registerVehicle
VehicleGateOpen(userId) ==
    /\ Exists(userId)
    /\ ~(users[userId].kycLevel < 2)

\* mutant: a failed upload goes unnoticed
UploadFails_Ignored(attempted, uploadOk) == FALSE

\* an awaited cloudinary.uploader.upload rejects; attempted: the request
\* carries a file for the handler to upload
UploadFails(attempted, uploadOk) == attempted /\ ~uploadOk

UploadLicenseHandler(userId, req, uploadOk) ==
    LET user == findById(userId)
        licenseImage == LicenseImageOf(req)
        rec(status) == [op |-> "uploadLicense", uid |-> userId, req |-> req,
                        uploadOk |-> uploadOk, status |-> status]
    IN  /\ UNCHANGED <<vehicles, sessions, now, nextTempId, inflight>>
        /\ IF ~Exists(userId)
           THEN /\ last' = rec(404)
                /\ UNCHANGED users
           ELSE IF ~LicenseGateOpen(user)
           THEN /\ last' = rec(403)
                /\ UNCHANGED users
           ELSE IF licenseImage = None
           THEN /\ last' = rec(400)
                /\ UNCHANGED users
           ELSE IF UploadFails(TRUE, uploadOk)
           THEN /\ last' = rec(500)
                /\ UNCHANGED users
           ELSE /\ users' = [users EXCEPT ![userId].kycLevel = 2,
                                          ![userId].licenseImage = licenseImage]
                /\ last' = rec(AfterSignInTry(200))

\* the handler called with req.files populated
uploadLicense ==
    \E userId \in UserIds, f \in Files \cup {None}, uploadOk \in BOOLEAN :
        UploadLicenseHandler(userId, FilesRequest(f), uploadOk)

\* POST /upload-license as the router wires it
uploadLicenseRoute ==
    \E userId \in UserIds, f \in Files \cup {None} :
        UploadLicenseHandler(userId, MulterSingle(f), TRUE)

HasVehicleAnswers == {"yes", "no", "maybe"}

\* mutant: every answer but "yes" is taken as "no"
IsNoAnswer_NotYes(hasVehicle) == hasVehicle # "yes"

\* hasVehicle === "no"
IsNoAnswer(hasVehicle) == hasVehicle = "no"

handleVehicleDecision ==
    \E userId \in UserIds, hasVehicle \in HasVehicleAnswers :
        LET rec(status) == [op |-> "vehicleDecision", uid |-> userId,
                            hasVehicle |-> hasVehicle, status |-> status]
        IN  /\ UNCHANGED <<vehicles, sessions, now, nextTempId, inflight>>
            /\ IF ~VehicleGateOpen(userId)
               THEN /\ last' = rec(403)
                    /\ UNCHANGED users
               ELSE IF IsNoAnswer(hasVehicle)
               THEN /\ users' = [users EXCEPT ![userId].role = "driver"]
                    /\ last' = rec(AfterSignNoTry(200))
               ELSE IF hasVehicle = "yes"
               THEN /\ last' = rec(AfterSignNoTry(200))
                    /\ UNCHANGED users
               ELSE /\ last' = rec(400)
                    /\ UNCHANGED users

\* the file fields registerVehicle reads from req.files
VehicleFileFields ==
    {"licenseImage", "vehicleRegistrationCardFront",
     "vehicleRegistrationCardBack", "roadAuthorityCertificate",
     "insuranceCertificate", "vehicleImages"}

\* the requests tried: no file at all, every file
ReqFileSets == {{}, VehicleFileFields}

\* mutant: the Vehicle is created without its owner
NewVehicle_NoOwner(userId, files) ==
    [userId |-> 0, files |-> files]

\* new Vehicle(vehicleData): the owner and the artifact fields that were
\* uploaded; the descriptive body fields are stored as they came and are
\* left out
NewVehicle(userId, files) ==
    [userId |-> userId, files |-> files]

\* mutant: the save flips the role
RoleAfterRegister_Toggle(user) ==
    IF user.role = "driver" THEN "customer" ELSE "driver"

\* user.role = "driver" before user.save() in registerVehicle
RoleAfterRegister(user) == "driver"

registerVehicle ==
    \E userId \in UserIds, files \in ReqFileSets, uploadOk \in BOOLEAN :
        LET rec(status) == [op |-> "registerVehicle", uid |-> userId,
                            files |-> files, uploadOk |-> uploadOk,
                            status |-> status]
        IN  /\ UNCHANGED <<sessions, now, nextTempId, inflight>>
            /\ IF ~VehicleGateOpen(userId)
               THEN /\ last' = rec(403)
                    /\ UNCHANGED <<users, vehicles>>
               ELSE IF UploadFails(files # {}, uploadOk)
               THEN /\ last' = rec(500)
                    /\ UNCHANGED <<users, vehicles>>
               ELSE /\ Len(vehicles) < MaxVehicles
                    /\ vehicles' = Append(vehicles, NewVehicle(userId, files))
                    /\ users' = [users EXCEPT
                                    ![userId].role = RoleAfterRegister(users[userId])]
                    /\ last' = rec(AfterSignInTry(201))

----------------------------------------------------------------------------
(* controllers/userController.js: submitKYC *)

\* the request-body check and the full-name split of submitKYC
KycRequests == {"ok", "missingField", "singleName"}

KycLevelAfterSubmit(user) == 1

submitKYC ==
    \E userId \in UserIds, request \in KycRequests, uploadOk \in BOOLEAN :
        LET user == findById(userId)
            rec(status) == [op |-> "submitKYC", uid |-> userId,
                            request |-> request, uploadOk |-> uploadOk,
                            status |-> status]
        IN  /\ UNCHANGED <<vehicles, sessions, now, nextTempId, inflight>>
            /\ IF request # "ok"
               THEN /\ last' = rec(400)
                    /\ UNCHANGED users
               ELSE IF ~Exists(userId)
               THEN /\ last' = rec(404)
                    /\ UNCHANGED users
               ELSE IF UploadFails(TRUE, uploadOk)
               THEN /\ last' = rec(500)
                    /\ UNCHANGED users
               ELSE /\ users' = [users EXCEPT
                                   ![userId].cnicImages = "url",
                                   ![userId].kycLevel = KycLevelAfterSubmit(user)]
                    /\ last' = rec(200)

----------------------------------------------------------------------------
(* The identity state machine: users already admitted, driven through the   *)
(* KYC and vehicle handlers.                                               *)

InitKyc ==
    /\ \E n \in 0..MaxKycUsers :
         users = [i \in 1..n |-> NewUser(i, Emails[i], Phones[i], Root)]
    /\ vehicles = <<>>
    /\ sessions = {}
    /\ now = 0
    /\ nextTempId = 0
    /\ inflight = <<>>
    /\ last = [op |-> "init", status |-> 0]

NextKyc ==
    \/ submitKYC
    \/ uploadLicense
    \/ uploadLicenseRoute
    \/ handleVehicleDecision
    \/ registerVehicle

SpecKyc == InitKyc /\ [][NextKyc]_vars

----------------------------------------------------------------------------
(* controllers/userController.js: the referral leveling engine *)

\* User.find({ sponsorBy: code }) on store st
Referrals(st, code) == {i \in DOMAIN st : st[i].sponsorBy = code}

\* User.find({ sponsorBy: code, level: lvl }) on store st
ReferralsAt(st, code, lvl) ==
    {i \in DOMAIN st : st[i].sponsorBy = code /\ st[i].level = lvl}

\* User.findOne({ sponsorId: code }) finds a document
HasSponsor(st, code) == \E i \in DOMAIN st : st[i].sponsorId = code

\* the _id of the document User.findOne({ sponsorId: code }) returns
SponsorOf(st, code) == CHOOSE i \in DOMAIN st : st[i].sponsorId = code

\* mutant: the save writes lvl and takes the users at lvl that are not in S
\* one level down
SaveLevels_Demote(st, S, lvl) ==
    [i \in DOMAIN st |->
        IF i \in S THEN [st[i] EXCEPT !.level = lvl]
        ELSE IF st[i].level = lvl THEN [st[i] EXCEPT !.level = lvl - 1]
        ELSE st[i]]

\* mutant: the save adds lvl to the level instead of writing it
SaveLevels_Add(st, S, lvl) ==
    [i \in DOMAIN st |->
        IF i \in S THEN [st[i] EXCEPT !.level = st[i].level + lvl] ELSE st[i]]

\* mutant: the save raises the level by one instead of writing lvl
SaveLevels_Increment(st, S, lvl) ==
    [i \in DOMAIN st |->
        IF i \in S THEN [st[i] EXCEPT !.level = st[i].level + 1] ELSE st[i]]

\* store st with the level of every user in set S saved as lvl
SaveLevels(st, S, lvl) ==
    [i \in DOMAIN st |-> IF i \in S THEN [st[i] EXCEPT !.level = lvl] ELSE st[i]]

\* one call of updateSponsorLevels up to user.save(), without the recursion
EvaluateNode(st, userId) ==
    LET user == st[userId]
        \* direct referrals, from the persisted sponsorTree
        l1 == IF Len(user.sponsorTree) >= 3 /\ user.level < 1
              THEN 1 ELSE user.level
        \* referrals with three referrals of their own are saved at level 2
        to2 == {r \in Referrals(st, user.sponsorId) :
                   /\ Cardinality(Referrals(st, st[r].sponsorId)) >= 3
                   /\ st[r].level < 2}
        st2 == SaveLevels(st, to2, 2)
        l2 == IF Cardinality(to2) >= 3 /\ l1 < 2 THEN 2 ELSE l1
        \* level-2 referrals with three level-2 referrals are saved at level 3
        to3 == {r \in ReferralsAt(st2, user.sponsorId, 2) :
                   /\ Cardinality(ReferralsAt(st2, st2[r].sponsorId, 2)) >= 3
                   /\ st2[r].level < 3}
        st3 == SaveLevels(st2, to3, 3)
        l3 == IF Cardinality(to3) >= 3 /\ l2 < 3 THEN 3 ELSE l2
        \* level-3 referrals with three level-3 referrals are saved at level 4
        to4 == {r \in ReferralsAt(st3, user.sponsorId, 3) :
                   /\ Cardinality(ReferralsAt(st3, st3[r].sponsorId, 3)) >= 3
                   /\ st3[r].level < 4}
        st4 == SaveLevels(st3, to4, 4)
        l4 == IF Cardinality(to4) >= 3 /\ l3 < 4 THEN 4 ELSE l3
        capped == IF l4 > 4 THEN 4 ELSE l4
    IN  \* user.save() writes the level only when it was assigned
        IF capped # user.level THEN SaveLevels(st4, {userId}, capped) ELSE st4

RECURSIVE updateSponsorLevels(_, _)
\* updateSponsorLevels(userId) on store st: the store it leaves
updateSponsorLevels(st, userId) ==
    IF userId \notin DOMAIN st THEN st
    ELSE LET after == EvaluateNode(st, userId)
             user == st[userId]
         IN  IF user.sponsorBy # Root /\ HasSponsor(after, user.sponsorBy)
             THEN updateSponsorLevels(after, SponsorOf(after, user.sponsorBy))
             ELSE after

----------------------------------------------------------------------------
(* controllers/userController.js: the verification session store *)

\* ten minutes, 10 * 60 * 1000 ms, in units of five minutes
OtpWindow == 2

\* expires: 600 (seconds) of the createdAt index, in units of five minutes
TtlWindow == 2

SessionEmails == {"e1", "e2"}
SessionPhones == {"p1", "p2"}

\* values generateOTP() returns
Otps == {"111111", "222222"}

\* TempUser.findOne({ email }) / TempUser.findOne({ tempId })
SessionsByEmail(email) == {s \in sessions : s.email = email}
SessionsByTempId(tempId) == {s \in sessions : s.tempId = tempId}

\* the unique indexes of tempUserSchema reject document d
DuplicateKey(d) ==
    \E s \in sessions :
        s.email = d.email \/ s.phoneNumber = d.phoneNumber \/ s.tempId = d.tempId

\* TempUser.create({ email, phoneNumber, tempId, otp })
NewSession(email, phoneNumber, tempId, otp) ==
    [email |-> email, phoneNumber |-> phoneNumber, tempId |-> tempId,
     otp |-> otp, createdAt |-> now]

\* mutant: the overwrite keeps the old OTP
OverwriteSession_KeepOtp(s, tempId, otp) == [s EXCEPT !.tempId = tempId]

\* tempUser.tempId = tempId; tempUser.otp = otp; tempUser.save()
OverwriteSession(s, tempId, otp) == [s EXCEPT !.tempId = tempId, !.otp = otp]

\* sponsorBy values a request carries: root, the code of a user, no user's code
SponsorByValues == {Root, UnknownCode} \cup {Codes[i] : i \in DOMAIN users}

signupUser ==
    \E email \in SessionEmails, fieldsOk \in BOOLEAN :
        LET tempId == nextTempId + 1
            found == SessionsByEmail(email)
            rec(id, code, overwrote, mailed, status, error) ==
                [op |-> "signup", email |-> email, tempId |-> id,
                 otp |-> code, overwrote |-> overwrote, mailed |-> mailed,
                 status |-> status, error |-> error]
            \* transporter.sendMail, then the response
            sent(otp, overwrote, mailOk) ==
                IF mailOk THEN rec(tempId, otp, overwrote, TRUE, 200, "")
                ELSE rec(tempId, otp, overwrote, FALSE, 500, "Upstream")
        IN  /\ UNCHANGED <<users, vehicles, now, inflight>>
            /\ IF ~fieldsOk
               THEN /\ last' = rec(0, "", FALSE, FALSE, 400, "Validation")
                    /\ UNCHANGED <<sessions, nextTempId>>
               ELSE /\ nextTempId < MaxTempIds
                    /\ nextTempId' = tempId
                    /\ \E otp \in Otps :
                       IF found # {}
                       THEN LET s == CHOOSE s \in found : TRUE
                            IN  /\ sessions' = (sessions \ {s}) \cup
                                       {OverwriteSession(s, tempId, otp)}
                                /\ \E mailOk \in BOOLEAN :
                                       last' = sent(otp, TRUE, mailOk)
                       ELSE \E phoneNumber \in SessionPhones :
                            LET d == NewSession(email, phoneNumber, tempId, otp)
                            IN  IF DuplicateKey(d)
                                THEN /\ last' = rec(tempId, otp, FALSE, FALSE,
                                                    500, "DuplicateKey")
                                     /\ UNCHANGED sessions
                                ELSE /\ sessions' = sessions \cup {d}
                                     /\ \E mailOk \in BOOLEAN :
                                            last' = sent(otp, FALSE, mailOk)

\* tempIds a request carries: the ones issued, and one never issued
TempIdValues == 1..(MaxTempIds + 1)

\* mutant: the resend restarts the session's window
ResendSession_Restart(s, newOtp) == [s EXCEPT !.otp = newOtp, !.createdAt = now]

\* tempUser.otp = newOtp; tempUser.save()
ResendSession(s, newOtp) == [s EXCEPT !.otp = newOtp]

resendOtp ==
    \E tempId \in TempIdValues \cup {0}, newOtp \in Otps :
        LET found == SessionsByTempId(tempId)
            rec(status, error) == [op |-> "resend", tempId |-> tempId,
                                   otp |-> newOtp, mailed |-> FALSE,
                                   status |-> status, error |-> error]
        IN  /\ UNCHANGED <<users, vehicles, now, nextTempId, inflight>>
            /\ IF tempId = 0
               THEN /\ last' = rec(400, "Validation")
                    /\ UNCHANGED sessions
               ELSE IF found = {}
               THEN /\ last' = rec(404, "NotFound")
                    /\ UNCHANGED sessions
               ELSE LET s == CHOOSE s \in found : TRUE
                    IN  /\ sessions' = (sessions \ {s}) \cup
                                           {ResendSession(s, newOtp)}
                        \* the mail's text names firstName and lastName, which
                        \* resendOtp never declares: building the argument of
                        \* sendMail throws, no mail is sent
                        /\ last' = rec(500, "ReferenceError")

\* Date.now() > tempUser.createdAt.getTime() + 10 * 60 * 1000
IsExpired(s) == now > s.createdAt + OtpWindow

\* mutant: the expired session is left in the store
WithoutSession_Kept(s) == sessions

\* TempUser.findByIdAndDelete(tempUser._id)
WithoutSession(s) == sessions \ {s}

\* mutant: the lookup matches on the email only
UserExists_EmailOnly(email, phoneNumber) ==
    \E i \in DOMAIN users : users[i].email = email

\* User.findOne({ $or: [{ email }, { phoneNumber }] }) finds a document
UserExists(email, phoneNumber) ==
    \E i \in DOMAIN users :
        users[i].email = email \/ users[i].phoneNumber = phoneNumber

\* mutant: the handler saves the sponsor's sponsorTree before the walk
Admitted_SavedTree(created, sponsorBy) ==
    IF HasSponsor(created, sponsorBy)
    THEN LET s == SponsorOf(created, sponsorBy)
         IN  updateSponsorLevels(
                 [created EXCEPT ![s].sponsorTree = Append(@, Len(created))], s)
    ELSE created

\* mutant: the handler skips the leveling walk
Admitted_NoWalk(created, sponsorBy) == created

\* const sponsor = await User.findOne({ sponsorId: sponsorBy });
\* if (sponsor) { ...; await updateSponsorLevels(sponsor._id); }
\* sponsor.sponsorTree.push(user._id) changes the document in memory only; it
\* is never saved
Admitted(created, sponsorBy) ==
    IF HasSponsor(created, sponsorBy)
    THEN updateSponsorLevels(created, SponsorOf(created, sponsorBy))
    ELSE created

\* the handler on one request; maxUsers bounds the user store
VerifyOTPUserHandler(tempId, otp, fieldsOk, maxUsers) ==
        LET found == SessionsByTempId(tempId)
            rec(status, error) == [op |-> "verify", tempId |-> tempId,
                                   otp |-> otp, status |-> status,
                                   error |-> error]
        IN  /\ UNCHANGED <<vehicles, now, nextTempId, inflight>>
            /\ IF ~fieldsOk
               THEN /\ last' = rec(400, "Validation")
                    /\ UNCHANGED <<users, sessions>>
               ELSE IF found = {}
               THEN /\ last' = rec(404, "NotFound")
                    /\ UNCHANGED <<users, sessions>>
               ELSE LET tempUser == CHOOSE s \in found : TRUE
                        id == Len(users) + 1
                        \* the store after User.create
                        created(sponsorBy) ==
                            Append(users, NewUser(id, tempUser.email,
                                                  tempUser.phoneNumber, sponsorBy))
                    IN  IF IsExpired(tempUser)
                        THEN /\ sessions' = WithoutSession(tempUser)
                             /\ last' = rec(400, "Expired")
                             /\ UNCHANGED users
                        ELSE IF tempUser.otp # otp
                        THEN /\ last' = rec(400, "InvalidOtp")
                             /\ UNCHANGED <<users, sessions>>
                        ELSE IF UserExists(tempUser.email, tempUser.phoneNumber)
                        THEN /\ last' = rec(400, "Conflict")
                             /\ UNCHANGED <<users, sessions>>
                        ELSE /\ Len(users) < maxUsers
                             /\ \E sponsorBy \in SponsorByValues :
                                  users' = Admitted(created(sponsorBy), sponsorBy)
                             /\ sessions' = sessions \ {tempUser}
                             /\ last' = rec(201, "")

verifyOTPUser ==
    \E tempId \in TempIdValues, otp \in Otps, fieldsOk \in BOOLEAN :
        VerifyOTPUserHandler(tempId, otp, fieldsOk, MaxUsers)

\* time passes
tick ==
    /\ now < MaxTime
    /\ now' = now + 1
    /\ last' = [op |-> "tick", status |-> 0, error |-> ""]
    /\ UNCHANGED <<users, vehicles, sessions, nextTempId, inflight>>

\* the TTL monitor of the createdAt index removes a session past its window
ttlExpire ==
    \E s \in sessions :
        /\ now >= s.createdAt + TtlWindow
        /\ sessions' = sessions \ {s}
        /\ last' = [op |-> "ttl", status |-> 0, error |-> ""]
        /\ UNCHANGED <<users, vehicles, now, nextTempId, inflight>>

InitSession ==
    /\ users = <<>>
    /\ vehicles = <<>>
    /\ sessions = {}
    /\ now = 0
    /\ nextTempId = 0
    /\ inflight = <<>>
    /\ last = [op |-> "init", status |-> 0, error |-> ""]

NextSession ==
    \/ signupUser
    \/ resendOtp
    \/ verifyOTPUser
    \/ tick
    \/ ttlExpire

SpecSession == InitSession /\ [][NextSession]_vars

----------------------------------------------------------------------------
(* The referral network: sessions are pending, every signup done at time 0, *)
(* and verifyOTPUser admits their owners one after the other.  The network  *)
(* starts empty, with MaxNetwork sessions pending, or as one of two          *)
(* networks earlier admissions have built, with MaxMore sessions pending.    *)

\* the session signupUser left for the k-th address
PendingSession(k) == [email |-> Emails[k], phoneNumber |-> Phones[k],
                      tempId |-> k, otp |-> "111111", createdAt |-> 0]

RECURSIVE Grow(_, _)
\* the store successful verifyOTPUser calls leave when they start from store
\* st and carry the sponsorBy values of sequence sponsors, in that order
Grow(st, sponsors) ==
    IF sponsors = <<>> THEN st
    ELSE LET id == Len(st) + 1
             created == Append(st, NewUser(id, Emails[id], Phones[id],
                                           Head(sponsors)))
         IN  Grow(Admitted(created, Head(sponsors)), Tail(sponsors))

\* user 1 has three referrals and no sponsor; user 6, referred by user 5, has
\* one referral
TwoBranches == <<Root, "S1", "S1", "S1", Root, "S5", "S6">>

\* user 2, referred by user 1, has the referrals 3, 4 and 5; users 3 and 4
\* have three referrals each, user 5 has one
ThreeDeep == <<Root, "S1", "S2", "S2", "S2", "S3", "S3", "S3",
               "S4", "S4", "S4", "S5">>

\* the networks a run starts from, with the number of pending sessions
Seeds == {[sponsors |-> <<>>, pending |-> MaxNetwork],
          [sponsors |-> TwoBranches, pending |-> MaxMore],
          [sponsors |-> ThreeDeep, pending |-> MaxMore]}

\* verifyOTPUser on the oldest pending session
admitUser ==
    \E otp \in Otps, fieldsOk \in BOOLEAN :
        VerifyOTPUserHandler(Len(users) + 1, otp, fieldsOk, nextTempId)

InitLevel ==
    /\ \E seed \in Seeds :
          LET n == Len(seed.sponsors)
          IN  /\ users = Grow(<<>>, seed.sponsors)
              /\ sessions = {PendingSession(k) : k \in (n + 1)..(n + seed.pending)}
              /\ nextTempId = n + seed.pending
    /\ vehicles = <<>>
    /\ now = 0
    /\ inflight = <<>>
    /\ last = [op |-> "init", status |-> 0, error |-> ""]

NextLevel ==
    \/ admitUser

SpecLevel == InitLevel /\ [][NextLevel]_vars

----------------------------------------------------------------------------
(* verifyOTPUser under concurrent requests.  The handler is an async        *)
(* function: between two awaits it runs alone, at every await another        *)
(* request may run.  One action per awaited store call; MaxRequests          *)
(* requests carry the tempId of the one pending session.                     *)

Requests == 1..MaxRequests

\* the fields of the User schema that carry a unique index
UserUniqueFields == {"sponsorId"}

\* User.create(d) is refused by a unique index
UserDuplicateKey(d) ==
    \E i \in DOMAIN users, f \in UserUniqueFields : users[i][f] = d[f]

\* request r moves to position pc
Goto(r, pc) == inflight' = [inflight EXCEPT ![r].pc = pc]

\* request r is answered
Respond(r, status, error) ==
    inflight' = [inflight EXCEPT ![r].pc = "done", ![r].status = status,
                                 ![r].error = error]

raceStep == [op |-> "await", status |-> 0, error |-> ""]

\* the request arrives with every field present (part_000:351-364)
raceReceive(r) ==
    /\ inflight[r].pc = "idle"
    /\ \E otp \in Otps, sponsorBy \in SponsorByValues :
          inflight' = [inflight EXCEPT ![r].pc = "findSession",
                                       ![r].otp = otp,
                                       ![r].sponsorBy = sponsorBy]
    /\ last' = raceStep
    /\ UNCHANGED <<users, vehicles, sessions, now, nextTempId>>

\* await TempUser.findOne({ tempId }), then the tests up to the next await
raceFindSession(r) ==
    /\ inflight[r].pc = "findSession"
    /\ LET found == SessionsByTempId(inflight[r].tempId)
       IN  IF found = {}
           THEN Respond(r, 404, "NotFound")
           ELSE LET tempUser == CHOOSE s \in found : TRUE
                IN  IF IsExpired(tempUser)
                    THEN inflight' = [inflight EXCEPT ![r].pc = "deleteExpired",
                                                      ![r].tempUser = found]
                    ELSE IF tempUser.otp # inflight[r].otp
                    THEN Respond(r, 400, "InvalidOtp")
                    ELSE inflight' = [inflight EXCEPT ![r].pc = "findUser",
                                                      ![r].tempUser = found]
    /\ last' = raceStep
    /\ UNCHANGED <<users, vehicles, sessions, now, nextTempId>>

\* the document of the collection that has the _id of session s
SameSession(s) == {d \in sessions : d.email = s.email}

\* await TempUser.findByIdAndDelete(tempUser._id) of the expired session
raceDeleteExpired(r) ==
    /\ inflight[r].pc = "deleteExpired"
    /\ \E tempUser \in inflight[r].tempUser :
          sessions' = sessions \ SameSession(tempUser)
    /\ Respond(r, 400, "Expired")
    /\ last' = raceStep
    /\ UNCHANGED <<users, vehicles, now, nextTempId>>

\* await User.findOne({ $or: [...] })
raceFindUser(r) ==
    /\ inflight[r].pc = "findUser"
    /\ \E tempUser \in inflight[r].tempUser :
          IF UserExists(tempUser.email, tempUser.phoneNumber)
          THEN Respond(r, 400, "Conflict")
          ELSE Goto(r, "create")
    /\ last' = raceStep
    /\ UNCHANGED <<users, vehicles, sessions, now, nextTempId>>

\* await User.create({...})
raceCreate(r) ==
    /\ inflight[r].pc = "create"
    /\ \E tempUser \in inflight[r].tempUser :
          LET d == NewUser(Len(users) + 1, tempUser.email,
                           tempUser.phoneNumber, inflight[r].sponsorBy)
          IN  IF UserDuplicateKey(d)
              THEN /\ Respond(r, 500, "DuplicateKey")
                   /\ UNCHANGED users
              ELSE /\ users' = Append(users, d)
                   /\ Goto(r, "level")
    /\ last' = raceStep
    /\ UNCHANGED <<vehicles, sessions, now, nextTempId>>

\* await User.findOne({ sponsorId: sponsorBy }) and the walk it starts
raceLevel(r) ==
    /\ inflight[r].pc = "level"
    /\ users' = Admitted(users, inflight[r].sponsorBy)
    /\ Goto(r, "deleteSession")
    /\ last' = raceStep
    /\ UNCHANGED <<vehicles, sessions, now, nextTempId>>

\* await TempUser.findByIdAndDelete(tempUser._id), then the 201 response
raceDeleteSession(r) ==
    /\ inflight[r].pc = "deleteSession"
    /\ \E tempUser \in inflight[r].tempUser :
          sessions' = sessions \ SameSession(tempUser)
    /\ Respond(r, 201, "")
    /\ last' = raceStep
    /\ UNCHANGED <<users, vehicles, now, nextTempId>>

\* one session is pending, fresh or past its window
InitRace ==
    /\ users = <<>>
    /\ vehicles = <<>>
    /\ sessions = {PendingSession(1)}
    /\ now \in {0, OtpWindow + 1}
    /\ nextTempId = 1
    /\ inflight = [r \in Requests |->
                     [pc |-> "idle", tempId |-> PendingSession(1).tempId,
                      otp |-> "", sponsorBy |-> "", tempUser |-> {},
                      status |-> 0, error |-> ""]]
    /\ last = [op |-> "init", status |-> 0, error |-> ""]

NextRace ==
    \E r \in Requests :
        \/ raceReceive(r)
        \/ raceFindSession(r)
        \/ raceDeleteExpired(r)
        \/ raceFindUser(r)
        \/ raceCreate(r)
        \/ raceLevel(r)
        \/ raceDeleteSession(r)

SpecRace == InitRace /\ [][NextRace]_vars

----------------------------------------------------------------------------
(* verifyOTPUser with the leveling walk taken apart: one action per awaited  *)
(* store call of updateSponsorLevels.  Every request has a pending session   *)
(* of its own and all of them name the same sponsor.  A document a query     *)
(* returned is a copy: its level is the level at the time of the query, and  *)
(* save() writes the level assigned to the copy.                             *)

RECURSIVE SortedIds(_)
\* the ids of set S in the order User.find returns the documents
SortedIds(S) ==
    IF S = {} THEN <<>>
    ELSE LET m == CHOOSE x \in S : \A y \in S : x <= y
         IN  <<m>> \o SortedIds(S \ {m})

\* the documents with the ids of S as a query on store st returns them
Snapshot(st, S) ==
    LET ids == SortedIds(S)
    IN  [k \in 1..Len(ids) |-> [id |-> ids[k], level |-> st[ids[k]].level]]

\* the three loops of updateSponsorLevels are numbered by the level they
\* save: the find that opens loop phase for the user with code sponsorId
LoopQuery(st, phase, sponsorId) ==
    IF phase = 2 THEN Referrals(st, sponsorId)
    ELSE ReferralsAt(st, sponsorId, phase - 1)

\* the find inside loop phase for the referral with code sponsorId
LoopCount(st, phase, sponsorId) ==
    IF phase = 2 THEN Cardinality(Referrals(st, sponsorId))
    ELSE Cardinality(ReferralsAt(st, sponsorId, phase - 1))

\* the code from the end of one iteration to the next await: the next
\* iteration, or the test after the loop and the find of the next loop, or
\* user.save() after the last loop
EndOfIteration(q) ==
    IF q.idx <= Len(q.refs) THEN [q EXCEPT !.pc = "count"]
    ELSE LET lvl == IF q.total >= 3 /\ q.level < q.phase
                    THEN q.phase ELSE q.level
         IN  [q EXCEPT !.level = lvl,
                       !.modified = q.modified \/ lvl # q.level,
                       !.pc = IF q.phase < 4 THEN "query" ELSE "saveUser",
                       !.phase = IF q.phase < 4 THEN q.phase + 1 ELSE q.phase]

\* await User.findOne({ sponsorId: sponsorBy }) of verifyOTPUser
levelFindSponsor(r) ==
    /\ inflight[r].pc = "level"
    /\ IF HasSponsor(users, inflight[r].sponsorBy)
       THEN inflight' = [inflight EXCEPT
                            ![r].pc = "findById",
                            ![r].node = SponsorOf(users, inflight[r].sponsorBy)]
       ELSE Goto(r, "deleteSession")
    /\ last' = raceStep
    /\ UNCHANGED <<users, vehicles, sessions, now, nextTempId>>

\* await User.findById(userId), then the test on sponsorTree.length
levelFindById(r) ==
    /\ inflight[r].pc = "findById"
    /\ LET user == users[inflight[r].node]
           direct == Len(user.sponsorTree) >= 3 /\ user.level < 1
       IN  inflight' = [inflight EXCEPT
                           ![r].pc = "query",
                           ![r].phase = 2,
                           ![r].level = IF direct THEN 1 ELSE user.level,
                           ![r].modified = direct]
    /\ last' = raceStep
    /\ UNCHANGED <<users, vehicles, sessions, now, nextTempId>>

\* await User.find({ sponsorBy: user.sponsorId [, level] }) that opens a loop
levelQuery(r) ==
    /\ inflight[r].pc = "query"
    /\ LET q == inflight[r]
           found == LoopQuery(users, q.phase, users[q.node].sponsorId)
       IN  inflight' = [inflight EXCEPT
                           ![r] = EndOfIteration(
                                      [q EXCEPT !.refs = Snapshot(users, found),
                                                !.idx = 1, !.total = 0])]
    /\ last' = raceStep
    /\ UNCHANGED <<users, vehicles, sessions, now, nextTempId>>

\* await User.find({ sponsorBy: referral.sponsorId [, level] }) in a loop,
\* then the test on its length and on the level of the referral's copy
levelCount(r) ==
    /\ inflight[r].pc = "count"
    /\ LET q == inflight[r]
           referral == q.refs[q.idx]
       IN  IF /\ LoopCount(users, q.phase, users[referral.id].sponsorId) >= 3
              /\ referral.level < q.phase
           THEN Goto(r, "saveReferral")
           ELSE inflight' = [inflight EXCEPT
                                ![r] = EndOfIteration([q EXCEPT !.idx = @ + 1])]
    /\ last' = raceStep
    /\ UNCHANGED <<users, vehicles, sessions, now, nextTempId>>

\* await referral.save() with the level of the loop assigned
levelSaveReferral(r) ==
    /\ inflight[r].pc = "saveReferral"
    /\ LET q == inflight[r]
       IN  /\ users' = SaveLevels(users, {q.refs[q.idx].id}, q.phase)
           /\ inflight' = [inflight EXCEPT
                              ![r] = EndOfIteration([q EXCEPT !.idx = @ + 1,
                                                              !.total = @ + 1])]
    /\ last' = raceStep
    /\ UNCHANGED <<vehicles, sessions, now, nextTempId>>

\* await user.save(): the level is written when it was assigned
levelSaveUser(r) ==
    /\ inflight[r].pc = "saveUser"
    /\ LET q == inflight[r]
       IN  /\ users' = IF q.modified
                       THEN SaveLevels(users, {q.node}, q.level) ELSE users
           /\ IF users[q.node].sponsorBy # Root
              THEN Goto(r, "findParent")
              ELSE Goto(r, "deleteSession")
    /\ last' = raceStep
    /\ UNCHANGED <<vehicles, sessions, now, nextTempId>>

\* await User.findOne({ sponsorId: user.sponsorBy }) and the recursive call
levelFindParent(r) ==
    /\ inflight[r].pc = "findParent"
    /\ LET code == users[inflight[r].node].sponsorBy
       IN  IF HasSponsor(users, code)
           THEN inflight' = [inflight EXCEPT
                                ![r].pc = "findById",
                                ![r].node = SponsorOf(users, code)]
           ELSE Goto(r, "deleteSession")
    /\ last' = raceStep
    /\ UNCHANGED <<users, vehicles, sessions, now, nextTempId>>

\* the networks the concurrent admissions start from
AdmitSeeds == {TwoBranches, ThreeDeep}

\* every request has passed the test on its fields and carries the code of
\* one user of the network as sponsorBy
InitAdmit ==
    /\ \E sponsors \in AdmitSeeds :
          LET n == Len(sponsors)
          IN  /\ users = Grow(<<>>, sponsors)
              /\ sessions = {PendingSession(n + r) : r \in Requests}
              /\ nextTempId = n + MaxRequests
              /\ \E s \in 1..n :
                    inflight = [r \in Requests |->
                                  [pc |-> "findSession",
                                   tempId |-> PendingSession(n + r).tempId,
                                   otp |-> PendingSession(n + r).otp,
                                   sponsorBy |-> Codes[s], tempUser |-> {},
                                   status |-> 0, error |-> "",
                                   node |-> 0, phase |-> 2, refs |-> <<>>,
                                   idx |-> 1, total |-> 0, level |-> 0,
                                   modified |-> FALSE]]
    /\ vehicles = <<>>
    /\ now \in {0, OtpWindow + 1}
    /\ last = [op |-> "init", status |-> 0, error |-> ""]

NextAdmit ==
    \E r \in Requests :
        \/ raceFindSession(r)
        \/ raceDeleteExpired(r)
        \/ raceFindUser(r)
        \/ raceCreate(r)
        \/ levelFindSponsor(r)
        \/ levelFindById(r)
        \/ levelQuery(r)
        \/ levelCount(r)
        \/ levelSaveReferral(r)
        \/ levelSaveUser(r)
        \/ levelFindParent(r)
        \/ raceDeleteSession(r)

SpecAdmit == InitAdmit /\ [][NextAdmit]_vars

----------------------------------------------------------------------------
(* controllers/userController.js: forgotPassword and resetPassword *)

\* Date.now() + 10 * 60 * 1000, in units of five minutes
ResetWindow == 2

ResetUserIds == 1..MaxResetUsers

\* passwords a request carries
Passwords == {"pw1", "pw2"}

\* User.findOne({ email }) finds a document
HasEmail(email) == \E i \in DOMAIN users : users[i].email = email

\* the _id of the document User.findOne({ email }) returns
ByEmail(email) == CHOOSE i \in DOMAIN users : users[i].email = email

forgotPassword ==
    \E k \in 0..(MaxResetUsers + 1) :
        LET email == IF k = 0 THEN "" ELSE Emails[k]
            rec(uid, otp, mailed, status) ==
                [op |-> "forgotPassword", uid |-> uid, otp |-> otp,
                 mailed |-> mailed, status |-> status]
        IN  /\ UNCHANGED <<vehicles, sessions, now, nextTempId, inflight>>
            /\ IF email = ""
               THEN /\ last' = rec(0, "", FALSE, 400)
                    /\ UNCHANGED users
               ELSE IF ~HasEmail(email)
               THEN /\ last' = rec(0, "", FALSE, 404)
                    /\ UNCHANGED users
               ELSE \E resetOtp \in Otps, mailOk \in BOOLEAN :
                        LET id == ByEmail(email)
                        IN  /\ users' = [users EXCEPT
                                   ![id].resetOtp = resetOtp,
                                   ![id].resetOtpExpires = now + ResetWindow]
                            /\ last' = IF mailOk
                                       THEN rec(id, resetOtp, TRUE, 200)
                                       ELSE rec(id, resetOtp, FALSE, 500)

\* mutant: the test leaves the expiry out
ResetOtpValid_NoExpiry(user, resetOtp) == user.resetOtp = resetOtp

\* the negation of the test that makes resetPassword throw
ResetOtpValid(user, resetOtp) ==
    ~(\/ user.resetOtp # resetOtp
      \/ user.resetOtpExpires = NoExpiry
      \/ user.resetOtpExpires < now)

resetPassword ==
    \E userId \in 1..(MaxResetUsers + 1), fieldsOk \in BOOLEAN :
        LET rec(otp, status) == [op |-> "resetPassword", uid |-> userId,
                                 otp |-> otp, status |-> status]
        IN  /\ UNCHANGED <<vehicles, sessions, now, nextTempId, inflight>>
            /\ IF ~fieldsOk
               THEN /\ last' = rec("", 400)
                    /\ UNCHANGED users
               ELSE IF ~Exists(userId)
               THEN /\ last' = rec("", 404)
                    /\ UNCHANGED users
               ELSE \E resetOtp \in Otps :
                        IF ~ResetOtpValid(users[userId], resetOtp)
                        THEN /\ last' = rec(resetOtp, 400)
                             /\ UNCHANGED users
                        ELSE \E password \in Passwords :
                             /\ users' = [users EXCEPT
                                    ![userId].password = password,
                                    ![userId].resetOtp = None,
                                    ![userId].resetOtpExpires = NoExpiry]
                             /\ last' = rec(resetOtp, 200)

InitReset ==
    /\ \E n \in 1..MaxResetUsers :
         users = [i \in 1..n |-> NewUser(i, Emails[i], Phones[i], Root)]
    /\ vehicles = <<>>
    /\ sessions = {}
    /\ now = 0
    /\ nextTempId = 0
    /\ inflight = <<>>
    /\ last = [op |-> "init", status |-> 0]

NextReset ==
    \/ forgotPassword
    \/ resetPassword
    \/ tick

SpecReset == InitReset /\ [][NextReset]_vars

----------------------------------------------------------------------------
(* Every operation that reads or writes a User document, on users that      *)
(* verifyOTPUser creates: the KYC and vehicle handlers, the password         *)
(* handlers, login and logout, and the vehicle update and the two reads the  *)
(* routes mount.  signupUser and resendOtp write TempUser documents only     *)
(* and are left out.                                                         *)

\* passwords a login request carries: the one set at registration and the
\* ones a reset can set
LoginPasswords == {"pw0"} \cup Passwords

\* loginUser: user.comparePassword(password) is modelled as equality with
\* the stored password
loginUser ==
    \E k \in 0..(MaxKycUsers + 1), password \in LoginPasswords :
        LET email == IF k = 0 THEN "" ELSE Emails[k]
            rec(uid, status) == [op |-> "login", uid |-> uid,
                                 status |-> status]
        IN  /\ UNCHANGED <<users, vehicles, sessions, now, nextTempId, inflight>>
            /\ IF email = ""
               THEN last' = rec(0, 400)
               ELSE IF ~HasEmail(email)
               THEN last' = rec(0, 401)
               ELSE LET id == ByEmail(email)
                    IN  IF ~users[id].isVerified
                        THEN last' = rec(id, 403)
                        ELSE IF users[id].password # password
                        THEN last' = rec(id, 401)
                        ELSE last' = rec(id, 200)

\* logout clears the cookie and answers 200
logout ==
    /\ last' = [op |-> "logout", uid |-> 0, status |-> 200]
    /\ UNCHANGED <<users, vehicles, sessions, now, nextTempId, inflight>>

\* updateVehicle: the artifacts the request carries are stored on a Vehicle
\* of the user; like registerVehicle it asks for kycLevel 2
updateVehicle ==
    \E userId \in UserIds, files \in ReqFileSets :
        LET rec(status) == [op |-> "updateVehicle", uid |-> userId,
                            status |-> status]
            owned == {v \in DOMAIN vehicles : vehicles[v].userId = userId}
        IN  /\ UNCHANGED <<users, sessions, now, nextTempId, inflight>>
            /\ IF ~VehicleGateOpen(userId)
               THEN /\ last' = rec(403)
                    /\ UNCHANGED vehicles
               ELSE IF owned = {}
               THEN /\ last' = rec(404)
                    /\ UNCHANGED vehicles
               ELSE /\ \E v \in owned :
                         vehicles' = [vehicles EXCEPT
                                         ![v].files = @ \cup files]
                    /\ last' = rec(200)

\* getCurrentUser and getUserVehicleInfo answer with the documents
getCurrentUser ==
    \E userId \in UserIds :
        /\ last' = [op |-> "getCurrentUser", uid |-> userId,
                    status |-> IF Exists(userId) THEN 200 ELSE 404]
        /\ UNCHANGED <<users, vehicles, sessions, now, nextTempId, inflight>>

getUserVehicleInfo ==
    \E userId \in UserIds :
        /\ last' = [op |-> "getUserVehicleInfo", uid |-> userId,
                    status |-> IF Exists(userId) THEN 200 ELSE 404]
        /\ UNCHANGED <<users, vehicles, sessions, now, nextTempId, inflight>>

\* no user yet; MaxRoleUsers sessions are pending
InitRole ==
    /\ users = <<>>
    /\ vehicles = <<>>
    /\ sessions = {PendingSession(k) : k \in 1..MaxRoleUsers}
    /\ now = 0
    /\ nextTempId = MaxRoleUsers
    /\ inflight = <<>>
    /\ last = [op |-> "init", status |-> 0]

NextRole ==
    \/ admitUser
    \/ loginUser
    \/ logout
    \/ forgotPassword
    \/ resetPassword
    \/ submitKYC
    \/ uploadLicense
    \/ uploadLicenseRoute
    \/ handleVehicleDecision
    \/ registerVehicle
    \/ updateVehicle
    \/ getCurrentUser
    \/ getUserVehicleInfo

SpecRole == InitRole /\ [][NextRole]_vars

----------------------------------------------------------------------------
(* src/controllers/userController.js: the version of the controller that    *)
(* keeps the OTP on the User document.  Its handlers carry the suffix V1.    *)

\* User.create({ ..., otp }) of signupUser: the account starts unverified
UnverifiedUser(id, email, phoneNumber, otp) ==
    [NewUser(id, email, phoneNumber, Root) EXCEPT !.isVerified = FALSE,
                                                  !.otp = otp]

signupUserV1 ==
    \E email \in SessionEmails, fieldsOk \in BOOLEAN :
        LET rec(uid, status) == [op |-> "signupV1", uid |-> uid,
                                 status |-> status]
        IN  /\ UNCHANGED <<vehicles, sessions, now, nextTempId, inflight>>
            /\ IF ~fieldsOk
               THEN /\ last' = rec(0, 400)
                    /\ UNCHANGED users
               ELSE \E phoneNumber \in SessionPhones :
                    IF UserExists(email, phoneNumber)
                    THEN /\ last' = rec(0, 400)
                         /\ UNCHANGED users
                    ELSE /\ Len(users) < MaxUsers
                         /\ \E otp \in Otps, mailOk \in BOOLEAN :
                              /\ users' = Append(users,
                                     UnverifiedUser(Len(users) + 1, email,
                                                    phoneNumber, otp))
                              /\ last' = rec(Len(users) + 1,
                                             IF mailOk THEN 201 ELSE 500)

verifyOTPUserV1 ==
    \E userId \in 1..(MaxUsers + 1), otp \in Otps :
        LET rec(status) == [op |-> "verifyV1", uid |-> userId,
                            status |-> status]
        IN  /\ UNCHANGED <<vehicles, sessions, now, nextTempId, inflight>>
            /\ IF ~Exists(userId)
               THEN /\ last' = rec(404)
                    /\ UNCHANGED users
               ELSE IF users[userId].isVerified \/ users[userId].otp # otp
               THEN /\ last' = rec(400)
                    /\ UNCHANGED users
               ELSE /\ users' = [users EXCEPT ![userId].isVerified = TRUE,
                                              ![userId].otp = None]
                    /\ last' = rec(200)

submitKYCV1 ==
    \E userId \in 1..(MaxUsers + 1), request \in KycRequests,
       uploadOk \in BOOLEAN :
        LET rec(status) == [op |-> "submitKYCV1", uid |-> userId,
                            status |-> status]
        IN  /\ UNCHANGED <<vehicles, sessions, now, nextTempId, inflight>>
            /\ IF request # "ok"
               THEN /\ last' = rec(400)
                    /\ UNCHANGED users
               ELSE IF ~Exists(userId)
               THEN /\ last' = rec(404)
                    /\ UNCHANGED users
               ELSE IF UploadFails(TRUE, uploadOk)
               THEN /\ last' = rec(500)
                    /\ UNCHANGED users
               ELSE /\ users' = [users EXCEPT ![userId].cnicImages = "url",
                                              ![userId].kycLevel = 1,
                                              ![userId].isVerified = TRUE]
                    /\ last' = rec(200)

InitV1 ==
    /\ users = <<>>
    /\ vehicles = <<>>
    /\ sessions = {}
    /\ now = 0
    /\ nextTempId = 0
    /\ inflight = <<>>
    /\ last = [op |-> "init", status |-> 0]

NextV1 ==
    \/ signupUserV1
    \/ verifyOTPUserV1
    \/ submitKYCV1

SpecV1 == InitV1 /\ [][NextV1]_vars

----------------------------------------------------------------------------
(* updateSponsorLevels as a walk, one evaluated user per step, on any         *)
(* sponsor relation over up to MaxWalkUsers users: sponsorBy is a string of   *)
(* the request (part_000:351, 394) and nothing compares it with the codes in  *)
(* the store, so the relation may be a forest or hold a user that is its own  *)
(* ancestor.  A step is taken while the user it evaluates was evaluated less  *)
(* than MaxVisits times.                                                     *)

\* the sponsorBy values of a store of n users: root or the code of any of them
WalkSponsors(n) == {Root} \cup {Codes[j] : j \in 1..n}

\* updateSponsorLevels(userId): one call, up to the recursive call
walkEvaluate ==
    /\ inflight # <<>>
    /\ inflight[1].pc = "walk"
    /\ LET userId == inflight[1].node
           user == users[userId]
       IN  /\ inflight[1].visits[userId] < MaxVisits
           /\ users' = EvaluateNode(users, userId)
           /\ inflight' =
                 <<[pc |-> IF user.sponsorBy # Root
                              /\ HasSponsor(users', user.sponsorBy)
                           THEN "walk" ELSE "done",
                    node |-> IF user.sponsorBy # Root
                                /\ HasSponsor(users', user.sponsorBy)
                             THEN SponsorOf(users', user.sponsorBy)
                             ELSE userId,
                    visits |-> [inflight[1].visits EXCEPT ![userId] = @ + 1]]>>
    /\ last' = [op |-> "walk", status |-> 0, error |-> ""]
    /\ UNCHANGED <<vehicles, sessions, now, nextTempId>>

InitWalk ==
    /\ \E n \in 1..MaxWalkUsers :
         \E sponsors \in [1..n -> WalkSponsors(n)], start \in 1..n :
            /\ users = [i \in 1..n |->
                           NewUser(i, Emails[i], Phones[i], sponsors[i])]
            /\ inflight = <<[pc |-> "walk", node |-> start,
                             visits |-> [i \in 1..n |-> 0]]>>
    /\ vehicles = <<>>
    /\ sessions = {}
    /\ now = 0
    /\ nextTempId = 0
    /\ last = [op |-> "init", status |-> 0, error |-> ""]

NextWalk ==
    \/ walkEvaluate

SpecWalk == InitWalk /\ [][NextWalk]_vars

----------------------------------------------------------------------------
(* Claims about the identity state machine (checked under SpecKyc) *)

\* req carries a license artifact, in req.file or in req.files
CarriesLicense(req) == req.file # None \/ req.files # None

\* C1: in every reachable state a user whose role is driver has
\* kycLevel >= 2.
C1_DriverImpliesKyc2 ==
    \A u \in DOMAIN users :
        users[u].role = "driver" => users[u].kycLevel >= 2

\* C2: no step lowers a user's kycLevel.
C2_KycLevelNeverDecreases ==
    [][\A u \in DOMAIN users : users'[u].kycLevel >= users[u].kycLevel]_vars

\* C3: an uploadLicense call that carries a license artifact, for an
\* existing user with kycLevel >= 1, whose upload does not fail, answers 200
\* and leaves the user at kycLevel 2.
C3_UploadLicenseSucceeds ==
    [][ ( /\ last'.op = "uploadLicense"
          /\ CarriesLicense(last'.req)
          /\ last'.uploadOk
          /\ Exists(last'.uid)
          /\ users[last'.uid].kycLevel >= 1 )
        => ( /\ last'.status = 200
             /\ users'[last'.uid].kycLevel = 2 ) ]_vars

\* C4: an uploadLicense call for a user with kycLevel = 0 answers 403
\* (PermissionDenied) and changes no user document (kycLevel, license
\* artifact and role included) and no vehicle.
C4_UploadLicenseGate ==
    [][ ( /\ last'.op = "uploadLicense"
          /\ Exists(last'.uid)
          /\ users[last'.uid].kycLevel = 0 )
        => ( /\ last'.status = 403
             /\ users' = users
             /\ vehicles' = vehicles ) ]_vars

C4_Witness ==
    /\ last.op = "uploadLicense"
    /\ last.status = 403
    /\ CarriesLicense(last.req)
    /\ Exists(last.uid)
    /\ users[last.uid].kycLevel = 0
    /\ users[last.uid].licenseImage = None

C6_NoVehicleDecision ==
    [][ (last'.op = "vehicleDecision" /\ last'.hasVehicle = "no") =>
        LET u == last'.uid
        IN  /\ vehicles' = vehicles
            /\ IF Exists(u) /\ users[u].kycLevel >= 2
               THEN users'[u].role = "driver"
               ELSE /\ last'.status = 403
                    /\ users' = users ]_vars

C6_Witness ==
    /\ last.op = "vehicleDecision"
    /\ last.hasVehicle = "no"
    /\ last.status # 403
    /\ users[last.uid].role = "driver"
    /\ users[last.uid].kycLevel >= 2
    /\ vehicles = <<>>

\* C7: vehicleDecision with answer "yes", or with a value that is neither
\* "yes" nor "no" (answered 400, InvalidInput, when the gate is passed),
\* changes no user document and no vehicle.
C7_DecisionFrame ==
    [][ (last'.op = "vehicleDecision" /\ last'.hasVehicle # "no") =>
        /\ users' = users
        /\ vehicles' = vehicles
        /\ ( /\ last'.hasVehicle # "yes"
             /\ Exists(last'.uid)
             /\ users[last'.uid].kycLevel >= 2 ) => last'.status = 400 ]_vars

C7_Witness ==
    /\ last.op = "vehicleDecision"
    /\ last.hasVehicle = "maybe"
    /\ last.status = 400
    /\ users[last.uid].kycLevel = 2
    /\ users[last.uid].role = "customer"

\* the request of the step reached the handler's uploads: it passed the
\* checks that come before them and carries a file to upload
ReachedUpload ==
    \/ /\ last'.op = "uploadLicense"
       /\ Exists(last'.uid)
       /\ users[last'.uid].kycLevel >= 1
       /\ LicenseImageOf(last'.req) # None
    \/ /\ last'.op = "registerVehicle"
       /\ Exists(last'.uid)
       /\ users[last'.uid].kycLevel >= 2
       /\ last'.files # {}
    \/ /\ last'.op = "submitKYC"
       /\ last'.request = "ok"
       /\ Exists(last'.uid)

\* C27: when an upload fails during submitKYC, uploadLicense or
\* registerVehicle, the handler answers with an error and commits nothing:
\* no user document changes (kycLevel, artifact URLs, role) and no Vehicle is
\* created.
C27_UploadFailureCommitsNothing ==
    [][(ReachedUpload /\ ~last'.uploadOk) =>
          /\ last'.status >= 400
          /\ users' = users
          /\ vehicles' = vehicles]_vars

\* registerVehicle has just failed on an upload for a user at kycLevel 2
C27_Witness ==
    /\ last.op = "registerVehicle"
    /\ ~last.uploadOk
    /\ last.files # {}
    /\ last.status = 500
    /\ Exists(last.uid)
    /\ users[last.uid].kycLevel = 2
    /\ users[last.uid].role = "customer"
    /\ vehicles = <<>>

----------------------------------------------------------------------------
(* Claims about the verification session store (checked under SpecSession) *)

\* C8: after every step no two sessions share an email; a signup for an
\* email that already has a session leaves exactly one session for it, which
\* carries the new tempId and the new OTP, and the old tempId matches no
\* session; a consume succeeds only with the OTP stored in the session it
\* names.
C8_OneSessionPerEmail ==
    [][ /\ \A s1, s2 \in sessions' : s1.email = s2.email => s1 = s2
        /\ ( /\ last'.op = "signup"
             /\ last'.error # "Validation"
             /\ SessionsByEmail(last'.email) # {} )
           => ( /\ \E s \in sessions' :
                      /\ {x \in sessions' : x.email = last'.email} = {s}
                      /\ s.tempId = last'.tempId
                      /\ s.otp = last'.otp
                /\ \A old \in SessionsByEmail(last'.email) :
                      /\ old.tempId # last'.tempId
                      /\ {x \in sessions' : x.tempId = old.tempId} = {} )
        /\ (last'.op = "verify" /\ last'.status = 201)
           => \E s \in sessions : s.tempId = last'.tempId /\ s.otp = last'.otp
      ]_vars

\* a second signup for the email has replaced tempId 1 by tempId 2
C8_Witness ==
    /\ last.op = "signup"
    /\ last.overwrote
    /\ last.tempId = 2
    /\ \E s \in sessions :
          /\ SessionsByEmail(last.email) = {s}
          /\ s.tempId = 2
          /\ s.otp = last.otp
    /\ SessionsByTempId(1) = {}

\* C9: right after a signup that overwrote a session, the session's
\* createdAt is the time of that signup, and a consume made now is not
\* rejected as expired.
C9_OverwriteRestartsWindow ==
    (last.op = "signup" /\ last.overwrote) =>
        \A s \in SessionsByTempId(last.tempId) :
            /\ s.createdAt = now
            /\ ~IsExpired(s)

\* C10: a consume with every required field present, naming a session whose
\* createdAt lies more than ten minutes back, is answered 400 Expired
\* whatever the OTP, leaves the users unchanged, and leaves no session with
\* that tempId.
C10_ExpiredConsume ==
    [][ ( /\ last'.op = "verify"
          /\ last'.error # "Validation"
          /\ \E s \in sessions :
                s.tempId = last'.tempId /\ now > s.createdAt + OtpWindow )
        => ( /\ last'.error = "Expired"
             /\ last'.status = 400
             /\ users' = users
             /\ {x \in sessions' : x.tempId = last'.tempId} = {} ) ]_vars

C10_Witness ==
    /\ last.op = "verify"
    /\ last.error = "Expired"
    /\ SessionsByTempId(last.tempId) = {}
    /\ now > OtpWindow
    /\ users = <<>>

\* C11: a resend for an existing session completes successfully, stores a
\* new OTP and dispatches it: after the step the response is 200, a mail went
\* out, and the OTP stored in the session is the OTP of that mail.
C11_ResendSucceeds ==
    [][(last'.op = "resend" /\ SessionsByTempId(last'.tempId) # {}) =>
          /\ last'.status = 200
          /\ last'.mailed
          /\ \A s \in sessions' :
                 s.tempId = last'.tempId => s.otp = last'.otp]_vars

\* C12: a resend changes only the OTP of the matched session: the session
\* keeps its tempId, email, phoneNumber and createdAt, every other session and
\* every user is untouched, and a session whose window had run out before the
\* resend is still expired after it.
C12_ResendFrame ==
    [][(last'.op = "resend" /\ SessionsByTempId(last'.tempId) # {}) =>
          LET s == CHOOSE s \in SessionsByTempId(last'.tempId) : TRUE
          IN  /\ \E t \in sessions' :
                    /\ t.tempId = s.tempId
                    /\ t.email = s.email
                    /\ t.phoneNumber = s.phoneNumber
                    /\ t.createdAt = s.createdAt
                    /\ t.otp = last'.otp
                    /\ sessions' \ {t} = sessions \ {s}
                    /\ (now > s.createdAt + OtpWindow
                          => now' > t.createdAt + OtpWindow)
              /\ users' = users]_vars

\* a resend has just rewritten the OTP of a session whose window had run out
C12_Witness ==
    /\ last.op = "resend"
    /\ last.error = "ReferenceError"
    /\ \E s \in sessions :
          /\ s.tempId = last.tempId
          /\ s.otp = last.otp
          /\ IsExpired(s)

\* C14: with signup and consume calls handled one at a time, no two Users
\* share an email or a phoneNumber, and a consume whose session's email or
\* phoneNumber already belongs to a User creates no User; when the request
\* passes the field, expiry and OTP checks it is answered with the conflict.
C14_UniqueUsers ==
    /\ [](\A i, j \in DOMAIN users :
              i # j => /\ users[i].email # users[j].email
                       /\ users[i].phoneNumber # users[j].phoneNumber)
    /\ [][(last'.op = "verify" /\ SessionsByTempId(last'.tempId) # {}) =>
             LET tempUser == CHOOSE s \in SessionsByTempId(last'.tempId) : TRUE
                 taken == \E i \in DOMAIN users :
                              \/ users[i].email = tempUser.email
                              \/ users[i].phoneNumber = tempUser.phoneNumber
             IN  taken =>
                   /\ users' = users
                   /\ last'.status # 201
                   /\ (/\ last'.error # "Validation"
                       /\ ~IsExpired(tempUser)
                       /\ tempUser.otp = last'.otp) => last'.error = "Conflict"]_vars

\* a consume was refused because the session's phoneNumber, not its email,
\* belongs to a User
C14_Witness ==
    /\ last.op = "verify"
    /\ last.error = "Conflict"
    /\ \E s \in SessionsByTempId(last.tempId) :
          /\ \E i \in DOMAIN users : users[i].phoneNumber = s.phoneNumber
          /\ \A i \in DOMAIN users : users[i].email # s.email

\* C26: when the transporter fails while signupUser dispatches the OTP, the
\* session written for the request is in the store all the same and the
\* caller is answered 200 with the tempId.
C26_MailFailureNotSurfaced ==
    [][(/\ last'.op = "signup"
        /\ last'.error \notin {"Validation", "DuplicateKey"}
        /\ ~last'.mailed) =>
           /\ \E s \in sessions' :
                 /\ s.email = last'.email
                 /\ s.tempId = last'.tempId
                 /\ s.otp = last'.otp
           /\ last'.status = 200]_vars

----------------------------------------------------------------------------
(* Claims about admission and the leveling engine (checked under SpecLevel) *)

\* the store right after User.create of an admission step: the old documents
\* and the new one
CreatedStore == Append(users, users'[Len(users')])

\* C13: a consume that succeeds leaves exactly one new User, carrying the
\* session's email and phoneNumber with isVerified = true; the consumed
\* session no longer exists; and the store the response is sent from holds the
\* levels of the finished walk from the new user's sponsor.
C13_ConsumeSucceeds ==
    [][(last'.op = "verify" /\ last'.status = 201) =>
          LET tempUser == CHOOSE s \in SessionsByTempId(last'.tempId) : TRUE
              new == users'[Len(users')]
          IN  /\ Len(users') = Len(users) + 1
              /\ new.email = tempUser.email
              /\ new.phoneNumber = tempUser.phoneNumber
              /\ new.isVerified
              /\ \A i \in DOMAIN users :
                     users'[i] = [users[i] EXCEPT !.level = users'[i].level]
              /\ sessions' = sessions \ {tempUser}
              /\ \A s \in sessions' : s.tempId # last'.tempId
              /\ users' = IF HasSponsor(CreatedStore, new.sponsorBy)
                          THEN updateSponsorLevels(CreatedStore,
                                   SponsorOf(CreatedStore, new.sponsorBy))
                          ELSE CreatedStore]_vars

\* the fifth admission has succeeded and its walk has saved a level
C13_Witness ==
    /\ last.op = "verify"
    /\ last.status = 201
    /\ Len(users) = 5
    /\ users[5].sponsorBy # Root
    /\ \E i \in DOMAIN users : users[i].level = 2
    /\ SessionsByTempId(last.tempId) = {}

\* a consume has just succeeded
AdmissionStep == last'.op = "verify" /\ last'.status = 201

\* the sponsorBy of the user the step admitted
NewSponsorBy == users'[Len(users')].sponsorBy

RECURSIVE Walk(_, _)
\* the users updateSponsorLevels(userId) evaluates on store st: userId, then
\* its sponsor, up to a user whose sponsorBy is root or names nobody
Walk(st, userId) ==
    {userId} \cup
        (IF st[userId].sponsorBy # Root /\ HasSponsor(st, st[userId].sponsorBy)
         THEN Walk(st, SponsorOf(st, st[userId].sponsorBy))
         ELSE {})

\* C16: a sponsor at rank 0 is at rank 1 after the admission of its third
\* direct referral and still at rank 0 after the admission of its second; the
\* admission of a fourth direct referral leaves the sponsor's rank as it was.
C16_ThirdReferralPromotes ==
    [][(AdmissionStep /\ HasSponsor(users, NewSponsorBy)) =>
          LET s == SponsorOf(users, NewSponsorBy)
              k == Cardinality(Referrals(users, NewSponsorBy))
          IN  /\ (users[s].level = 0 /\ k = 2) => users'[s].level = 1
              /\ (users[s].level = 0 /\ k = 1) => users'[s].level = 0
              /\ k = 3 => users'[s].level = users[s].level]_vars

\* C17: every node n the walk of an admission evaluates, whose rank r is
\* below 4 and which has at least three direct children of rank r or more,
\* has rank r + 1 after the walk.
C17_PromotionRule ==
    [][(AdmissionStep /\ HasSponsor(users, NewSponsorBy)) =>
          \A n \in Walk(CreatedStore, SponsorOf(users, NewSponsorBy)) :
              LET r == users[n].level
                  atLeastR == {c \in Referrals(CreatedStore, users[n].sponsorId) :
                                  CreatedStore[c].level >= r}
              IN  (r < 4 /\ Cardinality(atLeastR) >= 3)
                      => users'[n].level = r + 1]_vars

\* C18: one admission, with its whole upward walk, raises no user's rank by
\* more than one.
C18_OneRankPerWalk ==
    [][AdmissionStep =>
          \A i \in DOMAIN users : users'[i].level <= users[i].level + 1]_vars

RECURSIVE Shape(_, _)
\* the shape of the sponsor subtree rooted at user i of store st: the bag of
\* the shapes of the subtrees of i's referrals
Shape(st, i) ==
    LET kids == Referrals(st, st[i].sponsorId)
        shapes == {Shape(st, c) : c \in kids}
    IN  [s \in shapes |-> Cardinality({c \in kids : Shape(st, c) = s})]

\* C19: the rank of a user is a function of the shape of the sponsor subtree
\* rooted at that user: users whose subtrees have the same shape have the
\* same rank.
C19_RankFromShape ==
    \A i, j \in DOMAIN users :
        users[i].level # users[j].level => Shape(users, i) # Shape(users, j)

\* C20: after an admission whose sponsor exists, a second call of
\* updateSponsorLevels from that sponsor, with no user admitted in between,
\* leaves every user's level as it is.
C20_Idempotent ==
    (/\ last.op = "verify"
     /\ last.status = 201
     /\ HasSponsor(users, users[Len(users)].sponsorBy))
        => LET sponsor == SponsorOf(users, users[Len(users)].sponsorBy)
               again == updateSponsorLevels(users, sponsor)
           IN  \A i \in DOMAIN users : again[i].level = users[i].level

\* the walk of the last admission has raised the new user's sponsor's sponsor
\* to rank 3
C20_Witness ==
    /\ last.op = "verify"
    /\ last.status = 201
    /\ HasSponsor(users, users[Len(users)].sponsorBy)
    /\ LET sponsor == users[SponsorOf(users, users[Len(users)].sponsorBy)]
       IN  /\ sponsor.level = 2
           /\ Cardinality(Referrals(users, sponsor.sponsorId)) = 3
           /\ HasSponsor(users, sponsor.sponsorBy)
           /\ users[SponsorOf(users, sponsor.sponsorBy)].level = 3

\* C21: with admissions handled one at a time, no step lowers the level of
\* any user.
C21_LevelNeverDecreases ==
    [][\A i \in DOMAIN users : users'[i].level >= users[i].level]_vars

\* an admission has just raised a user from level 0 to level 2
C21_Witness ==
    /\ last.op = "verify"
    /\ last.status = 201
    /\ Len(users) = 6
    /\ users[Len(users)].sponsorBy # Root
    /\ Cardinality({i \in DOMAIN users : users[i].level = 2}) = 1

\* C22: in every reachable state the level of every user is one of 0..4.
C22_LevelInRange ==
    \A i \in DOMAIN users : users[i].level \in 0..4

\* a user has been saved at level 3, the highest level the bounds reach
C22_Witness ==
    /\ Len(users) >= 14
    /\ \E i \in DOMAIN users :
          /\ users[i].level = 3
          /\ Cardinality(ReferralsAt(users, users[i].sponsorId, 2)) >= 3

\* C23: after every successful consume, the persisted sponsorTree of each
\* user holds exactly the users whose sponsorBy is that user's sponsorId.
C23_SponsorTreeConsistent ==
    (last.op = "verify" /\ last.status = 201) =>
        \A p \in DOMAIN users :
            {users[p].sponsorTree[k] : k \in DOMAIN users[p].sponsorTree}
                = Referrals(users, users[p].sponsorId)

----------------------------------------------------------------------------
(* Claims about the password reset (checked under SpecReset) *)

\* C28: resetPassword changes the user document, and answers 200, only when
\* the submitted OTP is the stored resetOtp and resetOtpExpires has not
\* passed; a successful reset clears resetOtp and resetOtpExpires; a user
\* whose resetOtp is cleared has every OTP rejected; and neither
\* forgotPassword nor resetPassword changes kycLevel, role or level.
C28_ResetOtpOnceInWindow ==
    /\ [][(last'.op = "resetPassword" /\ Exists(last'.uid)) =>
             LET u == users[last'.uid]
                 v == users'[last'.uid]
             IN  /\ (users' # users \/ last'.status = 200) =>
                        /\ last'.otp = u.resetOtp
                        /\ u.resetOtpExpires # NoExpiry
                        /\ u.resetOtpExpires >= now
                 /\ last'.status = 200 =>
                        /\ v.resetOtp = None
                        /\ v.resetOtpExpires = NoExpiry
                 /\ u.resetOtp = None =>
                        /\ last'.status # 200
                        /\ users' = users]_vars
    /\ [][last'.op \in {"forgotPassword", "resetPassword"} =>
             /\ DOMAIN users' = DOMAIN users
             /\ \A i \in DOMAIN users :
                    /\ users'[i].kycLevel = users[i].kycLevel
                    /\ users'[i].role = users[i].role
                    /\ users'[i].level = users[i].level]_vars

\* a reset has just succeeded: the password is the submitted one and the
\* reset OTP is cleared
C28_Witness ==
    /\ last.op = "resetPassword"
    /\ last.status = 200
    /\ users[last.uid].password \in Passwords
    /\ users[last.uid].resetOtp = None
    /\ users[last.uid].resetOtpExpires = NoExpiry

----------------------------------------------------------------------------
(* Claims about the controller that keeps the OTP on the User document      *)
(* (checked under SpecV1)                                                    *)

\* C29: isVerified of a user goes from false to true only in a step in which
\* verifyOTPUser succeeds for that user; a successful submitKYC of a user
\* whose OTP was never verified leaves isVerified false.
C29_VerifiedOnlyByOtp ==
    [][\A i \in DOMAIN users :
          (~users[i].isVerified /\ users'[i].isVerified) =>
              /\ last'.op = "verifyV1"
              /\ last'.status = 200
              /\ last'.uid = i]_vars

----------------------------------------------------------------------------
(* Claims about the walk on any sponsor relation (checked under SpecWalk) *)

\* C25: the upward walk ends on every sponsor relation: it evaluates no user
\* more than once, on a chain that ends at a root-sponsored user and on a
\* relation in which a user is its own ancestor alike.
C25_WalkVisitsOnce ==
    \A k \in DOMAIN inflight :
        \A i \in DOMAIN inflight[k].visits : inflight[k].visits[i] <= 1

----------------------------------------------------------------------------
(* Claims about the role (checked under SpecRole) *)

----------------------------------------------------------------------------
(* Claims about concurrent admissions (checked under SpecAdmit) *)

\* every request has been answered
AllAnswered == \A r \in Requests : inflight[r].pc = "done"

\* the users the requests created
AdmittedIds ==
    {i \in DOMAIN users : \E r \in Requests : \E s \in inflight[r].tempUser :
                              users[i].email = s.email}

\* every request that found its session fresh is answered 201
C24_BothComplete ==
    \A r \in Requests :
        inflight[r].pc = "done" /\ now <= OtpWindow => inflight[r].status = 201

\* after the answers the sponsor's sponsorTree holds every admitted user
C24_SponsorHasChildren ==
    AllAnswered /\ now <= OtpWindow =>
        \A i \in AdmittedIds :
            \E k \in 1..Len(users[SponsorOf(users, users[i].sponsorBy)].sponsorTree) :
                users[SponsorOf(users, users[i].sponsorBy)].sponsorTree[k] = i

\* after the answers the levels are those the same admissions leave when
\* they run one after the other
C24_SequentialLevels ==
    AllAnswered /\ now <= OtpWindow =>
        LET seq == Grow(<<>>, [i \in DOMAIN users |-> users[i].sponsorBy])
        IN  \A i \in DOMAIN users : users[i].level = seq[i].level

\* no step lowers the level of a user
C24_NoDecrease ==
    \A i \in DOMAIN users : users'[i].level >= users[i].level

\* C24: when two verifyOTPUser calls admit two different users under the same
\* sponsor and their store calls interleave in any way, both are answered
\* 201, the sponsor ends with both users in its sponsorTree, no level
\* decreases, and the final levels equal those of running the two admissions
\* one after the other.
C24_ConcurrentAdmissions ==
    /\ [](C24_BothComplete /\ C24_SponsorHasChildren /\ C24_SequentialLevels)
    /\ [][C24_NoDecrease]_vars

----------------------------------------------------------------------------
(* Claims about concurrent requests (checked under SpecRace) *)

\* the requests that carry the tempId and the OTP of the pending session
ValidRequests ==
    {r \in Requests : /\ inflight[r].tempId = PendingSession(1).tempId
                      /\ inflight[r].otp = PendingSession(1).otp}

\* C15: of the concurrent consume calls that carry the same valid tempId and
\* OTP, at most one is answered 201, and at most one User is created for the
\* session.
C15_ConsumeAtMostOnce ==
    /\ Cardinality({r \in ValidRequests : inflight[r].status = 201}) <= 1
    /\ Cardinality({i \in DOMAIN users :
                       users[i].email = PendingSession(1).email}) <= 1

====
